---------------------------- MODULE Spec2Model ----------------------------
(***************************************************************************)
(* Model of ext/c_helper/backsolve_cf.c: the two discounting functions,    *)
(* the two secant solvers and the two exported entry points.               *)
(*                                                                         *)
(* Numbers.  A C double is modelled as a pair <<n, d>>:                    *)
(*   d > 0   the rational n/d in lowest terms (arithmetic is exact),       *)
(*   <<1,0>>, <<-1,0>>   +infinity, -infinity,                             *)
(*   <<0,0>>   NaN,                                                        *)
(*   <<0,-1>>  a value outside the range of the model (numerator or        *)
(*             denominator above Limit, or an irrational power).           *)
(* Infinities and NaN follow IEEE 754: x/0 is an infinity (NaN for 0/0),   *)
(* inf - inf and inf * 0 are NaN, every ordered comparison with NaN is     *)
(* false.  Zero is unsigned (every zero divisor in this code is a sum or a *)
(* pow() result, hence +0).  Rounding of finite results is not modelled.   *)
(* A step whose operands leave the model's range is not taken.             *)
(***************************************************************************)
EXTENDS Integers, Sequences, FiniteSets, TLC

\* largest numerator / denominator the model represents
Limit == 1073741823

IntAbs(i) == IF i < 0 THEN -i ELSE i

RECURSIVE GCD(_, _)
GCD(a, b) == IF b = 0 THEN a ELSE GCD(b, a % b)

MulOK(a, b) == a = 0 \/ b = 0 \/ IntAbs(a) <= Limit \div IntAbs(b)

NaN  == <<0, 0>>
PInf == <<1, 0>>
NInf == <<-1, 0>>
OOR  == <<0, -1>>

IsOOR(x)    == x[2] < 0
IsNaN(x)    == x = NaN
IsInf(x)    == x[2] = 0 /\ x[1] # 0
IsFinite(x) == x[2] > 0
InRange(x)  == ~IsOOR(x)

\* the double n/d (d # 0), in lowest terms
Q(n, d) ==
  LET g == GCD(IntAbs(n), IntAbs(d))
      m == IF d < 0 THEN -n ELSE n
  IN  IF IntAbs(n) \div g > Limit \/ IntAbs(d) \div g > Limit THEN OOR
      ELSE <<m \div g, IntAbs(d) \div g>>

R(n) == <<n, 1>>
Zero == R(0)
One  == R(1)

Sgn(x) == IF x[1] < 0 THEN -1 ELSE IF x[1] > 0 THEN 1 ELSE 0

\* unary minus
FNeg(x) == IF IsOOR(x) THEN OOR ELSE <<-x[1], x[2]>>

\* x + y
FAdd(x, y) ==
  IF IsOOR(x) \/ IsOOR(y) THEN OOR
  ELSE IF IsNaN(x) \/ IsNaN(y) THEN NaN
  ELSE IF IsInf(x) /\ IsInf(y) THEN (IF x = y THEN x ELSE NaN)
  ELSE IF IsInf(x) THEN x
  ELSE IF IsInf(y) THEN y
  ELSE LET g == GCD(x[2], y[2])
           b == x[2] \div g
           d == y[2] \div g
       IN  IF MulOK(x[1], d) /\ MulOK(y[1], b) /\ MulOK(b, y[2])
           THEN Q(x[1] * d + y[1] * b, b * y[2])
           ELSE OOR

\* x - y
FSub(x, y) == FAdd(x, FNeg(y))

\* x * y
FMul(x, y) ==
  IF IsOOR(x) \/ IsOOR(y) THEN OOR
  ELSE IF IsNaN(x) \/ IsNaN(y) THEN NaN
  ELSE IF IsInf(x) \/ IsInf(y)
       THEN (IF Sgn(x) * Sgn(y) = 0 THEN NaN ELSE <<Sgn(x) * Sgn(y), 0>>)
  ELSE LET g1 == GCD(IntAbs(x[1]), y[2])
           g2 == GCD(IntAbs(y[1]), x[2])
           a  == x[1] \div g1
           c  == y[1] \div g2
           b  == x[2] \div g2
           d  == y[2] \div g1
       IN  IF MulOK(a, c) /\ MulOK(b, d) THEN Q(a * c, b * d) ELSE OOR

\* x / y
FDiv(x, y) ==
  IF IsOOR(x) \/ IsOOR(y) THEN OOR
  ELSE IF IsNaN(x) \/ IsNaN(y) THEN NaN
  ELSE IF IsInf(y) THEN (IF IsInf(x) THEN NaN ELSE Zero)
  ELSE IF y[1] = 0 THEN (IF x[1] = 0 THEN NaN ELSE <<Sgn(x), 0>>)
  ELSE IF IsInf(x) THEN <<Sgn(x) * Sgn(y), 0>>
  ELSE FMul(x, IF y[1] > 0 THEN <<y[2], y[1]>> ELSE <<-y[2], -y[1]>>)

\* x == y on doubles
FEq(x, y) == ~IsNaN(x) /\ ~IsNaN(y) /\ x = y

\* whether the model can order x and y
CmpOK(x, y) ==
  /\ InRange(x) /\ InRange(y)
  /\ (IsFinite(x) /\ IsFinite(y)) =>
       LET g == GCD(x[2], y[2])
       IN  MulOK(x[1], y[2] \div g) /\ MulOK(y[1], x[2] \div g)

\* x < y on doubles
FLt(x, y) ==
  IF IsNaN(x) \/ IsNaN(y) \/ x = y THEN FALSE
  ELSE IF IsInf(x) THEN x = NInf
  ELSE IF IsInf(y) THEN y = PInf
  ELSE LET g == GCD(x[2], y[2])
       IN  x[1] * (y[2] \div g) < y[1] * (x[2] \div g)

\* x <= y on doubles
FLe(x, y) == FLt(x, y) \/ FEq(x, y)

\* the ABS macro
ABS(x) == IF FLt(x, Zero) THEN FNeg(x) ELSE x

\* pow(b, e) for a double exponent e; only integral exponents are in range
RECURSIVE PowInt(_, _)
PowInt(b, k) == IF k = 0 THEN One ELSE FMul(b, PowInt(b, k - 1))

pow(b, e) ==
  IF IsOOR(b) \/ IsOOR(e) THEN OOR
  ELSE IF e = Zero THEN One
  ELSE IF IsNaN(b) \/ IsNaN(e) THEN NaN
  ELSE IF ~IsFinite(e) \/ e[2] # 1 THEN OOR
  ELSE IF e[1] > 0 THEN PowInt(b, e[1])
  ELSE FDiv(One, PowInt(b, -e[1]))

(***************************************************************************)
(* The discounting functions                                               *)
(***************************************************************************)

\* the loop of _compute_pv, from cash flow t (1-based) on
RECURSIVE pv_loop(_, _, _, _, _, _, _, _, _, _)
pv_loop(cfs, dates, libor, num_cfs, year_convention, spread, t, discount_factor, prev_cumul_date, cumul_pv) ==
  IF t > num_cfs THEN cumul_pv
  ELSE LET discount_rate == FAdd(libor[t], spread)
           df == FDiv(discount_factor,
                      FAdd(One, FDiv(FMul(discount_rate,
                                          FSub(dates[t], prev_cumul_date)),
                                     year_convention)))
       IN  pv_loop(cfs, dates, libor, num_cfs, year_convention, spread,
                   t + 1, df, dates[t], FAdd(cumul_pv, FMul(cfs[t], df)))

\* _compute_pv with the clean-price adjustment dropped
compute_pv_no_accrued(cfs, dates, libor, num_cfs, is_clean, accrued_interest, year_convention, spread) ==
  IF num_cfs > 0
  THEN pv_loop(cfs, dates, libor, num_cfs, year_convention, spread,
               1, One, Zero, Zero)
  ELSE R(-997)

_compute_pv(cfs, dates, libor, num_cfs, is_clean, accrued_interest, year_convention, spread) ==
  IF num_cfs > 0
  THEN LET cumul_pv == pv_loop(cfs, dates, libor, num_cfs, year_convention,
                               spread, 1, One, Zero, Zero)
       IN  IF is_clean THEN FSub(cumul_pv, accrued_interest) ELSE cumul_pv
  ELSE R(-997)

\* the loop of _compute_pv_for_irr, from cash flow t (1-based) on
RECURSIVE irr_loop(_, _, _, _, _, _, _)
irr_loop(cfs, dates, num_cfs, irr, t, orig_date, cumul_pv) ==
  IF t > num_cfs THEN cumul_pv
  ELSE LET discount_factor ==
             FDiv(One, pow(FAdd(One, irr),
                           FDiv(FSub(dates[t], orig_date), R(365))))
       IN  irr_loop(cfs, dates, num_cfs, irr, t + 1, orig_date,
                    FAdd(cumul_pv, FMul(cfs[t], discount_factor)))

_compute_pv_for_irr(cfs, dates, num_cfs, is_clean, accrued_interest, irr) ==
  IF num_cfs > 0
  THEN LET cumul_pv == irr_loop(cfs, dates, num_cfs, irr, 1, dates[1], Zero)
       IN  IF is_clean THEN FSub(cumul_pv, accrued_interest) ELSE cumul_pv
  ELSE R(-997)

(***************************************************************************)
(* Inputs of one call                                                      *)
(***************************************************************************)

\* longest cash-flow stream
MaxN == 2
\* largest max_tries a caller passes
MaxTries == 4

Amounts  == {Zero, R(100), R(-100)}
Steps    == {-1, 0, 1}
Rates    == {Zero, Q(-17, 16), Q(-399649, 400)}
Spreads  == {Zero, Q(1, 10)}
Residues == {R(-1), Zero, Q(1, 1000), Q(3, 50)}
Tries    == 0 .. MaxTries
Accrued  == {R(5)}
YearConventions == {R(365)}

Seqs(S, n) == [1 .. n -> S]

RECURSIVE PrefixSum(_, _)
PrefixSum(u, k) == IF k = 0 THEN 0 ELSE PrefixSum(u, k - 1) + u[k]

\* day offsets: each a year after, equal to, or a year before its predecessor
\* (the first one counted from day 0)
Offsets(n) ==
  {[k \in 1 .. n |-> R(365 * PrefixSum(u, k))] : u \in Seqs(Steps, n)}

VARIABLES
  fn,           \* "cf": backsolve_cf was called; "irr": backsolve_irr
  args,         \* the Ruby arguments of the call
  pc,           \* position in the entry point / solver
  c_cfs, c_dates, c_libor,   \* the malloc'ed buffers
  i, prev_date,              \* marshalling loop
  x_n_minus_1, x_n, f_n_minus_1, f_n, trials,   \* solver locals
  evals,        \* calls of the discounting function so far
  c_result,     \* what the solver returned
  outcome       \* what the entry point gave the Ruby caller

vars == <<fn, args, pc, c_cfs, c_dates, c_libor, i, prev_date,
          x_n_minus_1, x_n, f_n_minus_1, f_n, trials, evals, c_result, outcome>>

NoBuf   == [st |-> "unset", data |-> <<>>, frees |-> 0]
NoOutcome == [kind |-> "none", msg |-> "", val |-> Zero]

\* target prices offered for a stream: 0, and the PV of the stream at a spread
Targets(cfs, dates, libor, n, cl, ai, yc) ==
  {Zero} \cup
  {p \in {_compute_pv(cfs, dates, libor, n, cl, ai, yc, s) : s \in Spreads} :
     IsFinite(p)}

Init ==
  /\ fn \in {"cf", "irr"}
  /\ \E n \in 0 .. MaxN :
       \E cfs \in Seqs(Amounts, n), dates \in Offsets(n),
          libor \in {[k \in 1 .. n |-> r] : r \in Rates},
          cl \in BOOLEAN, ai \in Accrued, yc \in YearConventions :
         \E tp \in Targets(cfs, dates, libor, n, cl, ai, yc),
            res \in Residues, mt \in Tries :
           /\ fn = "irr" => (tp = Zero /\ libor = [k \in 1 .. n |-> Zero])
           /\ args = [cfs |-> cfs, dates |-> dates, libor |-> libor,
                      num_cfs |-> n, target_px |-> tp, res |-> res,
                      max_tries |-> mt, is_clean |-> cl,
                      accrued_interest |-> ai, year_convention |-> yc]
  /\ pc = "entry"
  /\ c_cfs = NoBuf /\ c_dates = NoBuf /\ c_libor = NoBuf
  /\ i = 0 /\ prev_date = Zero
  /\ x_n_minus_1 = Zero /\ x_n = Zero /\ f_n_minus_1 = Zero /\ f_n = Zero
  /\ trials = 0 /\ evals = 0
  /\ c_result = Zero
  /\ outcome = NoOutcome

(***************************************************************************)
(* The entry points backsolve_cf and backsolve_irr                         *)
(***************************************************************************)

malloc(ok)  == [st |-> IF ok THEN "live" ELSE "null", data |-> <<>>, frees |-> 0]
free(b)     == IF b.st \in {"live", "freed"}
               THEN [b EXCEPT !.st = "freed", !.frees = @ + 1]
               ELSE b
store(b, v) == [b EXCEPT !.data = Append(@, v)]

rb_raise(kind, msg) == [kind |-> kind, msg |-> msg, val |-> Zero]

solverLocals == <<x_n_minus_1, x_n, f_n_minus_1, f_n, trials, evals, c_result>>

\* if (c_num_cfs < 1) rb_raise(...)
CheckNumCfs ==
  /\ pc = "entry"
  /\ IF args.num_cfs < 1
     THEN /\ outcome' = rb_raise("RuntimeError",
                 "valid array of cash flows must have at least one entry")
          /\ pc' = "done"
     ELSE /\ pc' = "alloc_cfs"
          /\ UNCHANGED outcome
  /\ UNCHANGED <<fn, args, c_cfs, c_dates, c_libor, i, prev_date, solverLocals>>

\* c_cfs = malloc(...); if (c_cfs == NULL) ...
AllocCfs ==
  /\ pc = "alloc_cfs"
  /\ \E ok \in BOOLEAN :
       /\ c_cfs' = malloc(ok)
       /\ IF c_cfs'.st = "null"
          THEN /\ outcome' = rb_raise("NoMemError",
                      "failed to allocate memory for c_cfs")
               /\ pc' = "done"
          ELSE /\ pc' = "alloc_dates"
               /\ UNCHANGED outcome
  /\ UNCHANGED <<fn, args, c_dates, c_libor, i, prev_date, solverLocals>>

\* c_dates = malloc(...); if (c_cfs == NULL) ...
AllocDates ==
  /\ pc = "alloc_dates"
  /\ \E ok \in BOOLEAN :
       /\ c_dates' = malloc(ok)
       /\ IF c_cfs.st = "null"
          THEN /\ c_cfs' = free(c_cfs)
               /\ outcome' = rb_raise("NoMemError",
                      "failed to allocate memory for c_dates")
               /\ pc' = "done"
          ELSE /\ pc' = IF fn = "cf" THEN "alloc_libor" ELSE "marshal"
               /\ UNCHANGED <<c_cfs, outcome>>
  /\ UNCHANGED <<fn, args, c_libor, i, prev_date, solverLocals>>

\* c_libor = malloc(...); if (c_cfs == NULL) ...      (backsolve_cf only)
AllocLibor ==
  /\ pc = "alloc_libor"
  /\ \E ok \in BOOLEAN :
       /\ c_libor' = malloc(ok)
       /\ IF c_cfs.st = "null"
          THEN /\ c_cfs' = free(c_cfs)
               /\ c_dates' = free(c_dates)
               /\ outcome' = rb_raise("NoMemError",
                      "failed to allocate memory for c_libor")
               /\ pc' = "done"
          ELSE /\ pc' = "marshal"
               /\ UNCHANGED <<c_cfs, c_dates, outcome>>
  /\ UNCHANGED <<fn, args, i, prev_date, solverLocals>>

\* the date check with < for <=
DateRejectedStrict(d, prev) == FLt(d, prev)

\* if (c_dates[i] <= prev_date)
DateRejected(d, prev) == FLe(d, prev)

\* the outcomes of a store through a null pointer
NullStore == {"SIGSEGV", "memory corrupted"}

\* one iteration of the marshalling loop (i is the C index, 0-based)
MarshalStep ==
  /\ pc = "marshal"
  /\ i < args.num_cfs
  /\ LET d == args.dates[i + 1] IN
       IF c_dates.st = "null"
       THEN \* c_dates[i] = ... stores through NULL
            /\ \E o \in NullStore : outcome' = rb_raise(o, "c_dates[i]")
            /\ c_cfs' = store(c_cfs, args.cfs[i + 1])
            /\ pc' = "done"
            /\ UNCHANGED <<c_dates, c_libor, i, prev_date>>
       ELSE IF DateRejected(d, prev_date)
       THEN /\ c_cfs' = free(store(c_cfs, args.cfs[i + 1]))
            /\ c_dates' = free(store(c_dates, d))
            /\ c_libor' = free(c_libor)
            /\ outcome' = rb_raise("RuntimeError",
                 "dates must contain a list of monotonically increasing values, starting at a value > 0")
            /\ pc' = "done"
            /\ UNCHANGED <<i, prev_date>>
       ELSE IF fn = "cf" /\ c_libor.st = "null"
       THEN \* c_libor[i] = ... stores through NULL
            /\ \E o \in NullStore : outcome' = rb_raise(o, "c_libor[i]")
            /\ c_cfs' = store(c_cfs, args.cfs[i + 1])
            /\ c_dates' = store(c_dates, d)
            /\ prev_date' = d
            /\ pc' = "done"
            /\ UNCHANGED <<c_libor, i>>
       ELSE /\ c_cfs' = store(c_cfs, args.cfs[i + 1])
            /\ c_dates' = store(c_dates, d)
            /\ c_libor' = IF fn = "cf" THEN store(c_libor, args.libor[i + 1])
                          ELSE c_libor
            /\ prev_date' = d
            /\ i' = i + 1
            /\ pc' = IF i + 1 < args.num_cfs THEN "marshal" ELSE "solve"
            /\ UNCHANGED outcome
  /\ UNCHANGED <<fn, args, solverLocals>>

(***************************************************************************)
(* The solvers _backsolve_cf and _backsolve_irr                            *)
(***************************************************************************)

target_px == IF fn = "cf" THEN args.target_px ELSE Zero

\* the discounting function the running solver calls, at trial rate x
PV(x) ==
  IF fn = "cf"
  THEN _compute_pv(c_cfs.data, c_dates.data, c_libor.data, args.num_cfs,
                   args.is_clean, args.accrued_interest,
                   args.year_convention, x)
  ELSE _compute_pv_for_irr(c_cfs.data, c_dates.data, args.num_cfs,
                           args.is_clean, args.accrued_interest, x)

\* f(x) = target_px - PV(x)
Residual(x) == FSub(target_px, PV(x))

\* the loop condition  ABS(f_n) > res && trials < max_tries
LoopCond == FLt(args.res, ABS(f_n)) /\ trials < args.max_tries

\* the degenerate check comparing the trial points instead of the residuals
DegenerateCheckOnX == FEq(x_n, x_n_minus_1)

\* if (f_n == f_n_minus_1)
DegenerateCheck == FEq(f_n, f_n_minus_1)

\* x_n - f_n * (x_n - x_n_minus_1) / (f_n - f_n_minus_1)
SecantPoint ==
  FSub(x_n, FDiv(FMul(f_n, FSub(x_n, x_n_minus_1)), FSub(f_n, f_n_minus_1)))

\* the loop exit handing back the previous trial point
ExitValuePrevious ==
  IF trials >= args.max_tries THEN R(-998) ELSE x_n_minus_1

\* if (trials >= max_tries) return -998.0;  return x_n;
ExitValue == IF trials >= args.max_tries THEN R(-998) ELSE x_n

entryLocals == <<fn, args, c_cfs, c_dates, c_libor, i, prev_date, outcome>>

\* the two seed points and their residuals
SolverStart ==
  /\ pc = "solve"
  /\ LET xm == Q(3, 50)
         x0 == FAdd(xm, Q(1, 400))
     IN  /\ InRange(Residual(xm)) /\ InRange(Residual(x0))
         /\ x_n_minus_1' = xm
         /\ x_n' = x0
         /\ f_n_minus_1' = Residual(xm)
         /\ f_n' = Residual(x0)
  /\ trials' = 0
  /\ evals' = 2
  /\ pc' = "loop"
  /\ UNCHANGED <<entryLocals, c_result>>

\* if (f_n == f_n_minus_1) return -999.0;
SolverDegenerate ==
  /\ pc = "loop"
  /\ CmpOK(args.res, ABS(f_n))
  /\ LoopCond
  /\ DegenerateCheck
  /\ c_result' = R(-999)
  /\ pc' = "ret"
  /\ UNCHANGED <<entryLocals, x_n_minus_1, x_n, f_n_minus_1, f_n, trials, evals>>

\* one secant update
SolverStep ==
  /\ pc = "loop"
  /\ CmpOK(args.res, ABS(f_n))
  /\ LoopCond
  /\ ~DegenerateCheck
  /\ InRange(SecantPoint) /\ InRange(Residual(SecantPoint))
  /\ x_n_minus_1' = x_n
  /\ x_n' = SecantPoint
  /\ f_n_minus_1' = f_n
  /\ f_n' = Residual(SecantPoint)
  /\ trials' = trials + 1
  /\ evals' = evals + 1
  /\ pc' = "loop"
  /\ UNCHANGED <<entryLocals, c_result>>

\* loop exit:  if (trials >= max_tries) return -998.0;  return x_n;
SolverExit ==
  /\ pc = "loop"
  /\ CmpOK(args.res, ABS(f_n))
  /\ ~LoopCond
  /\ c_result' = ExitValue
  /\ pc' = "ret"
  /\ UNCHANGED <<entryLocals, x_n_minus_1, x_n, f_n_minus_1, f_n, trials, evals>>

\* back in the entry point: free the buffers, raise or return a Float
Return ==
  /\ pc = "ret"
  /\ c_cfs' = free(c_cfs)
  /\ c_dates' = free(c_dates)
  /\ c_libor' = IF fn = "cf" THEN free(c_libor) ELSE c_libor
  /\ outcome' =
       IF FEq(c_result, R(-999))
       THEN rb_raise("ZeroDivError", "value doesn't change when yield is sensitized")
       ELSE IF FEq(c_result, R(-998))
       THEN rb_raise("RuntimeError", "failed to converge")
       ELSE [kind |-> "Float", msg |-> "", val |-> c_result]
  /\ pc' = "done"
  /\ UNCHANGED <<fn, args, i, prev_date, solverLocals>>

Next ==
  \/ CheckNumCfs
  \/ AllocCfs
  \/ AllocDates
  \/ AllocLibor
  \/ MarshalStep
  \/ SolverStart
  \/ SolverDegenerate
  \/ SolverStep
  \/ SolverExit
  \/ Return

Spec == Init /\ [][Next]_vars

(***************************************************************************)
(* Outcomes of a call, in the words of the specification                   *)
(***************************************************************************)

Done      == pc = "done"
SolverRan == evals > 0

Numeric        == outcome.kind = "Float"
DegenerateStep == outcome.kind = "ZeroDivError"
NonConvergence == outcome.kind = "RuntimeError" /\ outcome.msg = "failed to converge"
InvalidStream  == outcome.kind = "RuntimeError" /\ outcome.msg # "failed to converge"
MemoryError    == outcome.kind = "NoMemError"
AllocFailed    == \E b \in {c_cfs, c_dates, c_libor} : b.st = "null"

\* PV of the caller's stream at rate x, by the discounting function of the call
ArgsPV(x) ==
  IF fn = "cf"
  THEN _compute_pv(args.cfs, args.dates, args.libor, args.num_cfs,
                   args.is_clean, args.accrued_interest, args.year_convention, x)
  ELSE _compute_pv_for_irr(args.cfs, args.dates, args.num_cfs,
                           args.is_clean, args.accrued_interest, x)

\* |target - PV(x)| <= res
WithinTol(f) == FLe(ABS(f), args.res)
Reproduces(x) == WithinTol(FSub(target_px, ArgsPV(x)))

\* num_cfs < 1, or some day offset not strictly greater than its predecessor
BadStream ==
  \/ args.num_cfs < 1
  \/ \E k \in 1 .. args.num_cfs :
       ~FLt(IF k = 1 THEN Zero ELSE args.dates[k - 1], args.dates[k])

ValidParams == FLe(Zero, args.res) /\ args.max_tries >= 1

(***************************************************************************)
(* Claims                                                                  *)
(***************************************************************************)

\* C1: with maxIterations >= 1, as soon as an evaluated trial point x_n has
\* |target - PV(x_n)| <= res the solver returns that x_n; it returns the
\* non-convergence value only when the trial count reached the maximum
\* without the tolerance being met.
C1_StopsAtTolerance ==
  (pc = "ret" /\ args.max_tries >= 1) =>
    /\ WithinTol(f_n) => c_result = x_n
    /\ (c_result = R(-998) /\ x_n # R(-998)) =>
         (trials >= args.max_tries /\ ~WithinTol(f_n))

\* C2: a numeric result x for a stream with N >= 1 satisfies
\* |target - PV(x)| <= residualTolerance.
C2_ResultWithinTolerance ==
  (Done /\ Numeric /\ args.num_cfs >= 1 /\ ValidParams) =>
    Reproduces(outcome.val)

\* a stream whose PV does not depend on the trial rate: all amounts zero, or
\* a single entry under the IRR model, the PV being a finite number at both
\* seed rates
ConstantStream ==
  /\ \/ \A k \in 1 .. args.num_cfs : args.cfs[k] = Zero
     \/ fn = "irr" /\ args.num_cfs = 1
  /\ IsFinite(ArgsPV(Q(3, 50))) /\ ArgsPV(Q(1, 16)) = ArgsPV(Q(3, 50))

\* C3 (as stated): for a constant-PV stream, every target, tolerance >= 0 and
\* maxIterations >= 1, the solve ends with DegenerateStep on the first
\* iteration, never with a number or NonConvergence.
C3_ConstantPVDegenerate ==
  (Done /\ SolverRan /\ ConstantStream /\ ValidParams) =>
    (DegenerateStep /\ trials = 0)

\* C3 (amended): for a constant-PV stream, tolerance >= 0, maxIterations >= 1
\* and a target with |target - PV| > tolerance, the solve ends with
\* DegenerateStep on the first iteration: no secant update, two evaluations.
C3_ConstantPVOutsideTolerance ==
  (/\ Done /\ SolverRan /\ ConstantStream /\ ValidParams
   /\ ~Reproduces(Q(1, 16))) =>
    (DegenerateStep /\ trials = 0 /\ evals = 2)

C3_Witness ==
  /\ Done /\ SolverRan /\ ValidParams /\ DegenerateStep /\ trials = 0
  /\ args.num_cfs = 2 /\ ConstantStream /\ ~Reproduces(Q(1, 16))

\* C4: the loop makes at most maxIterations secant updates (at most
\* maxIterations + 2 evaluations), the trial counter never exceeds
\* maxIterations, and a solve in which no evaluated point met the tolerance
\* and no degenerate step occurred ends with NonConvergence (stated for
\* tolerance >= 0 and maxIterations >= 1).
C4_IterationCap ==
  (SolverRan /\ ValidParams) =>
    /\ trials <= args.max_tries
    /\ evals <= args.max_tries + 2
    /\ (Done /\ ~WithinTol(f_n) /\ ~DegenerateStep) => NonConvergence

\* C5: DegenerateStep is raised only after two equal consecutive residuals,
\* NonConvergence only when the iteration cap was exhausted, and every
\* converged rate is returned as a number whatever its value.
C5_FailuresDistinguishable ==
  (Done /\ SolverRan) =>
    /\ DegenerateStep => FEq(f_n, f_n_minus_1)
    /\ NonConvergence => trials >= args.max_tries
    /\ (WithinTol(f_n) /\ trials < args.max_tries) =>
         (Numeric /\ outcome.val = x_n)

\* C6: a call with residualTolerance < 0 or maxIterations < 1 is rejected
\* before the solver or the discounting function runs and never reports a
\* core-level outcome.
C6_ParametersValidated ==
  (FLt(args.res, Zero) \/ args.max_tries < 1) =>
    (~SolverRan /\ ~Numeric /\ ~DegenerateStep /\ ~NonConvergence)

RoundTrip ==
  fn = "cf" /\ \E s \in Spreads : IsFinite(ArgsPV(s)) /\ args.target_px = ArgsPV(s)

\* 100 at day 365, zero reference rate, year convention 365, target price 100
Example ==
  /\ fn = "cf" /\ args.num_cfs = 1 /\ ~args.is_clean
  /\ args.cfs = <<R(100)>> /\ args.dates = <<R(365)>> /\ args.libor = <<Zero>>
  /\ args.year_convention = R(365) /\ args.target_px = R(100)

AccruedProbe == {R(5), R(-3)}

\* C9: for both discounting functions, the PV with is_clean set equals the PV
\* with is_clean clear minus accrued_interest, and with is_clean clear the PV
\* does not depend on accrued_interest; checked at every trial rate the
\* solver evaluates, and against the residual the solver holds there.
C9_CleanIsDirtyMinusAccrued ==
  (pc = "loop") =>
    LET S(cl, a) == _compute_pv(args.cfs, args.dates, args.libor, args.num_cfs,
                                cl, a, args.year_convention, x_n)
        I(cl, a) == _compute_pv_for_irr(args.cfs, args.dates, args.num_cfs,
                                        cl, a, x_n)
        sd       == S(FALSE, Zero)
        id       == I(FALSE, Zero)
        dirty    == IF fn = "cf" THEN sd ELSE id
    IN  /\ \A a \in AccruedProbe :
             /\ S(FALSE, a) = sd
             /\ I(FALSE, a) = id
             /\ S(TRUE, a) = FSub(sd, a)
             /\ I(TRUE, a) = FSub(id, a)
        /\ f_n = FSub(target_px,
                      IF args.is_clean THEN FSub(dirty, args.accrued_interest)
                      ELSE dirty)

C9_Witness ==
  /\ pc = "loop" /\ trials >= 1 /\ args.is_clean /\ IsFinite(f_n)
  /\ fn = "cf" /\ args.accrued_interest # Zero

\* C10: on every path out of an entry point each allocated buffer is freed
\* exactly once, and a failed allocation is reported as a memory error before
\* the buffer is written.
C10_BuffersFreedAndChecked ==
  Done =>
    /\ \A b \in {c_cfs, c_dates, c_libor} : b.st # "live" /\ b.frees <= 1
    /\ outcome.kind \notin NullStore
    /\ AllocFailed => MemoryError

=============================================================================
